---- MODULE Spec2Model ----
(***************************************************************************)
(* The delimiter-range utilities of src/utils/text.ts: getParenthesesRange,*)
(* getOpenCloseRange, indexOfExcluding and splitExcluding.                 *)
(*                                                                         *)
(* A text is a sequence of one-character strings; offsets are 0-based as   *)
(* in the source, so the character at offset p is text[p + 1].  One        *)
(* behaviour is one call: Init draws the operation and its arguments, and  *)
(* every further step is one recursive call of indexOfExcluding, or one    *)
(* iteration of the loop of getOpenCloseRange or of splitExcluding.        *)
(***************************************************************************)
EXTENDS Integers, Sequences, FiniteSets, TLC

\* Longest input text.
MaxLen == 5
\* Longest input text of a call that is given exclusion ranges.
MaxExclLen == 3
\* Longest list of exclusion ranges.
MaxRanges == 2
\* Frames the engine's call stack holds before it throws a RangeError.
StackLimit == 8

VARIABLES
    op,               \* the exported (or, for indexOfExcluding, internal) function called
    input,            \* the text
    excludeRanges,    \* the list of TextRange
    search,           \* indexOfExcluding: the token
    calls,            \* indexOfExcluding: the position argument of every frame on the stack
    searchStartIndex, \* getOpenCloseRange
    openToken,        \* getOpenCloseRange
    closeToken,       \* getOpenCloseRange
    i,                \* getOpenCloseRange: the loop variable
    depth,            \* getOpenCloseRange
    firstOpenIndex,   \* getOpenCloseRange
    separator,        \* splitExcluding
    currIndex,        \* splitExcluding
    parts,            \* splitExcluding
    pc,               \* "call" | "loop" | "done" | "thrown"
    result            \* the value returned, once pc = "done"

vars == <<op, input, excludeRanges, search, calls, searchStartIndex, openToken,
          closeToken, i, depth, firstOpenIndex, separator, currIndex, parts,
          pc, result>>

--------------------------------------------------------------------------
\* Values

\* The null that getOpenCloseRange returns.
Null == [null |-> TRUE]
\* The value of result while the call runs.
Pending == [pending |-> TRUE]
\* "RangeError: Maximum call stack size exceeded", as a value of indexOfExcluding.
RangeError == -2

TextRange(s, e) == [start |-> s, end |-> e]

\* Characters that String.prototype.trim removes.
Whitespace == {" "}

Min(a, b) == IF a <= b THEN a ELSE b
Max(a, b) == IF a >= b THEN a ELSE b

--------------------------------------------------------------------------
\* Built-ins of String the source calls

\* Whether tok occurs in text at offset p.
OccursAt(text, tok, p) ==
    /\ p >= 0
    /\ p + Len(tok) <= Len(text)
    /\ \A k \in 1..Len(tok) : text[p + k] = tok[k]

\* text.indexOf(tok, pos): pos is clamped to 0..length; -1 when tok is absent.
IndexOf(text, tok, pos) ==
    LET from == Min(Max(pos, 0), Len(text))
        hits == {p \in from..Len(text) : OccursAt(text, tok, p)}
    IN  IF hits = {} THEN -1 ELSE CHOOSE p \in hits : \A q \in hits : p <= q

\* Mutation of Substring: the character at b is taken too.
SubstringThroughEnd(text, a, b) ==
    LET ca == Min(Max(a, 0), Len(text))
        cb == Min(Max(b + 1, 0), Len(text))
    IN  SubSeq(text, Min(ca, cb) + 1, Max(ca, cb))

\* text.substring(a, b): both clamped to 0..length, swapped when a > b.
Substring(text, a, b) ==
    LET ca == Min(Max(a, 0), Len(text))
        cb == Min(Max(b, 0), Len(text))
    IN  SubSeq(text, Min(ca, cb) + 1, Max(ca, cb))

RECURSIVE TrimStart(_)
TrimStart(s) ==
    IF s # <<>> /\ Head(s) \in Whitespace THEN TrimStart(Tail(s)) ELSE s

RECURSIVE TrimEnd(_)
TrimEnd(s) ==
    IF s # <<>> /\ s[Len(s)] \in Whitespace THEN TrimEnd(SubSeq(s, 1, Len(s) - 1)) ELSE s

\* Mutation of Trim: trailing whitespace is kept.
TrimStartOnly(s) == TrimStart(s)

\* s.trim()
Trim(s) == TrimEnd(TrimStart(s))

--------------------------------------------------------------------------
\* indexOfExcluding

\* Mutation of Exclusion: the range's end is taken as inclusive.
ExclusionEndInclusive(ranges, at) ==
    LET hit == {n \in 1..Len(ranges) : at >= ranges[n].start /\ at <= ranges[n].end}
    IN  IF hit = {} THEN 0 ELSE CHOOSE n \in hit : \A m \in hit : n <= m

\* excludeRanges.find((r) => i >= r.start && i < r.end): the index in the list of
\* the first such range, 0 for undefined.
Exclusion(ranges, at) ==
    LET hit == {n \in 1..Len(ranges) : at >= ranges[n].start /\ at < ranges[n].end}
    IN  IF hit = {} THEN 0 ELSE CHOOSE n \in hit : \A m \in hit : n <= m

\* The function as a value: frames counts the calls on the stack.
RECURSIVE indexOfExcludingFrom(_, _, _, _, _)
indexOfExcludingFrom(text, tok, pos, ranges, frames) ==
    LET at == IndexOf(text, tok, pos)
        n  == Exclusion(ranges, at)
    IN  IF n # 0
        THEN IF frames >= StackLimit
             THEN RangeError
             ELSE indexOfExcludingFrom(text, tok, ranges[n].end, ranges, frames + 1)
        ELSE at

indexOfExcluding(text, tok, pos, ranges) ==
    indexOfExcludingFrom(text, tok, pos, ranges, 1)

--------------------------------------------------------------------------
\* getOpenCloseRange

\* Mutation of indexOf: the plain search whatever the ranges.
indexOfIgnoringRanges(text, ranges, tok, pos) == IndexOf(text, tok, pos)

\* The indexOf closure of lines 139-144.
indexOf(text, ranges, tok, pos) ==
    IF Len(ranges) = 0
    THEN IndexOf(text, tok, pos)
    ELSE indexOfExcluding(text, tok, pos, ranges)

\* Mutation of Advance: the i++ is lost.
AdvanceWithoutIncrement(index) == index

\* i = index, then the i++ that ends the iteration.
Advance(index) == index + 1

\* Mutation of ClosesFirst: the test for an absent open token is lost.
ClosesFirstIgnoringAbsentOpen(closeIndex, openIndex) == closeIndex < openIndex

\* The test of line 164: the close token comes before any further open token.
ClosesFirst(closeIndex, openIndex) == openIndex < 0 \/ closeIndex < openIndex

\* The locals of the loop before its first iteration.
LoopStart(start) ==
    [i |-> start, depth |-> 0, firstOpenIndex |-> -1, done |-> FALSE, value |-> Null]

\* One iteration of the for loop, its i++ included.  st holds the locals; done
\* says that the function has returned value.  A break leaves the loop for the
\* return null that follows it.
LoopBody(text, open, close, ranges, st) ==
    IF st.depth = 0
    THEN LET openIndex == indexOf(text, ranges, open, st.i)
         IN  IF openIndex < 0
             THEN [st EXCEPT !.done = TRUE, !.value = Null]
             ELSE [st EXCEPT !.firstOpenIndex = openIndex,
                             !.depth = @ + 1,
                             !.i = Advance(openIndex)]
    ELSE LET closeIndex == indexOf(text, ranges, close, st.i)
             openIndex  == indexOf(text, ranges, open, st.i)
         IN  IF closeIndex < 0
             THEN [st EXCEPT !.done = TRUE, !.value = Null]
             ELSE IF ClosesFirst(closeIndex, openIndex)
                  THEN IF st.depth - 1 = 0
                       THEN [st EXCEPT !.depth = 0,
                                       !.done = TRUE,
                                       !.value = TextRange(st.firstOpenIndex, closeIndex + 1)]
                       ELSE [st EXCEPT !.depth = @ - 1, !.i = Advance(closeIndex)]
                  ELSE [st EXCEPT !.depth = @ + 1, !.i = Advance(openIndex)]

\* The function as a value.
RECURSIVE RunLoop(_, _, _, _, _)
RunLoop(text, open, close, ranges, st) ==
    IF st.done THEN st.value
    ELSE IF st.i < Len(text)
         THEN RunLoop(text, open, close, ranges, LoopBody(text, open, close, ranges, st))
         ELSE Null

getOpenCloseRange(text, start, open, close, ranges) ==
    RunLoop(text, open, close, ranges, LoopStart(start))

--------------------------------------------------------------------------
\* The arguments a call is made with
\*
\* Texts are drawn over the characters that matter to the function called: its
\* tokens, whitespace where the result is trimmed, and one other character.
\* Lists of ranges that break the TextRange invariant are given to
\* indexOfExcluding itself, where their effect arises; getOpenCloseRange and
\* splitExcluding are called with well-formed ranges.

Texts(alphabet, n) == UNION {[1..k -> alphabet] : k \in 0..n}

\* TextRange invariant: 0 <= start <= end <= length(text).
WellFormed(r, text) == 0 <= r.start /\ r.start <= r.end /\ r.end <= Len(text)

WellFormedRanges(text) ==
    {r \in [start : 0..Len(text), end : 0..Len(text)] : WellFormed(r, text)}

\* Ranges that break the invariant: end < start, a negative start, an end past
\* the text.
MalformedRanges(text) ==
    {r \in [start : -1..Len(text) + 1, end : -1..Len(text) + 1] : ~WellFormed(r, text)}

Lists(S) == UNION {[1..k -> S] : k \in 0..MaxRanges}

\* Lists that hold one malformed range, alone or beside a well-formed one.
MalformedLists(text) ==
    {<<r>> : r \in MalformedRanges(text)} \cup
    {<<r, w>> : r \in MalformedRanges(text), w \in WellFormedRanges(text)} \cup
    {<<w, r>> : w \in WellFormedRanges(text), r \in MalformedRanges(text)}

SearchTokens == {<<",">>, <<",", "a">>}
OpenTokens == {<<"(">>, <<"(", "(">>}
CloseTokens == {<<")">>, <<"(">>, <<")", ")">>, <<"(", ")">>}
Separators == {<<",">>, <<" ">>, <<",", ",">>, <<",", " ">>}

\* indexOfExcluding(input, search, position, excludeRanges)
InitIndexOfExcluding ==
    /\ op = "indexOfExcluding"
    /\ input \in Texts({",", "a"}, MaxExclLen)
    /\ excludeRanges \in Lists(WellFormedRanges(input)) \cup MalformedLists(input)
    /\ search \in SearchTokens
    /\ \E position \in 0..Len(input) : calls = <<position>>
    /\ searchStartIndex = 0 /\ openToken = <<>> /\ closeToken = <<>>
    /\ i = 0 /\ depth = 0 /\ firstOpenIndex = -1
    /\ separator = <<>> /\ currIndex = 0 /\ parts = <<>>
    /\ pc = "call"

\* getOpenCloseRange(input, searchStartIndex, openToken, closeToken, excludeRanges)
InitGetOpenCloseRange ==
    /\ op = "getOpenCloseRange"
    /\ \/ /\ input \in Texts({"(", ")", "a"}, MaxLen)
          /\ excludeRanges = <<>>
          /\ openToken \in OpenTokens
          /\ closeToken \in CloseTokens
          /\ searchStartIndex \in -1..Len(input) + 1
       \/ /\ input \in Texts({"(", ")"}, MaxExclLen)
          /\ excludeRanges \in Lists(WellFormedRanges(input)) \ {<<>>}
          /\ openToken = <<"(">>
          /\ closeToken = <<")">>
          /\ searchStartIndex \in 0..Len(input)
    /\ i = searchStartIndex /\ depth = 0 /\ firstOpenIndex = -1
    /\ search = <<>> /\ calls = <<>>
    /\ separator = <<>> /\ currIndex = 0 /\ parts = <<>>
    /\ pc = "loop"

\* getParenthesesRange(input, searchStartIndex)
\*   = getOpenCloseRange(input, searchStartIndex, '(', ')', [])
InitGetParenthesesRange ==
    /\ op = "getParenthesesRange"
    /\ input \in Texts({"(", ")", "a"}, MaxLen)
    /\ searchStartIndex \in -1..Len(input) + 1
    /\ openToken = <<"(">>
    /\ closeToken = <<")">>
    /\ excludeRanges = <<>>
    /\ i = searchStartIndex /\ depth = 0 /\ firstOpenIndex = -1
    /\ search = <<>> /\ calls = <<>>
    /\ separator = <<>> /\ currIndex = 0 /\ parts = <<>>
    /\ pc = "loop"

\* splitExcluding(input, separator, excludeRanges)
InitSplitExcluding ==
    /\ op = "splitExcluding"
    /\ \/ /\ input \in Texts({",", " ", "a"}, MaxLen)
          /\ excludeRanges = <<>>
          /\ separator \in Separators
       \/ /\ input \in Texts({",", " "}, MaxExclLen)
          /\ excludeRanges \in Lists(WellFormedRanges(input)) \ {<<>>}
          /\ separator = <<",">>
    /\ currIndex = 0 /\ parts = <<>>
    /\ search = <<>> /\ calls = <<>>
    /\ searchStartIndex = 0 /\ openToken = <<>> /\ closeToken = <<>>
    /\ i = 0 /\ depth = 0 /\ firstOpenIndex = -1
    /\ pc = "loop"

Init ==
    /\ result = Pending
    /\ \/ InitIndexOfExcluding
       \/ InitGetOpenCloseRange
       \/ InitGetParenthesesRange
       \/ InitSplitExcluding

--------------------------------------------------------------------------
\* Steps

RangeLocals == <<searchStartIndex, openToken, closeToken, i, depth, firstOpenIndex>>
SplitLocals == <<separator, currIndex, parts>>
Arguments == <<op, input, excludeRanges>>

\* The position argument of the running call of indexOfExcluding.
position == calls[Len(calls)]

\* indexOfExcluding finds the token inside a range and calls itself from the
\* range's end.
IndexOfExcludingRecurse ==
    /\ op = "indexOfExcluding" /\ pc = "call"
    /\ LET at == IndexOf(input, search, position)
           n  == Exclusion(excludeRanges, at)
       IN  /\ n # 0
           /\ Len(calls) < StackLimit
           /\ calls' = Append(calls, excludeRanges[n].end)
    /\ UNCHANGED <<Arguments, search, RangeLocals, SplitLocals, pc, result>>

\* indexOfExcluding returns i, and every caller on the stack returns it on.
IndexOfExcludingReturn ==
    /\ op = "indexOfExcluding" /\ pc = "call"
    /\ LET at == IndexOf(input, search, position)
       IN  /\ Exclusion(excludeRanges, at) = 0
           /\ result' = at
    /\ pc' = "done"
    /\ UNCHANGED <<Arguments, search, calls, RangeLocals, SplitLocals>>

\* The recursion has filled the call stack: the engine throws.
IndexOfExcludingOverflow ==
    /\ op = "indexOfExcluding" /\ pc = "call"
    /\ Exclusion(excludeRanges, IndexOf(input, search, position)) # 0
    /\ Len(calls) >= StackLimit
    /\ pc' = "thrown"
    /\ result' = RangeError
    /\ UNCHANGED <<Arguments, search, calls, RangeLocals, SplitLocals>>

RangeOps == {"getOpenCloseRange", "getParenthesesRange"}

Locals == [i |-> i, depth |-> depth, firstOpenIndex |-> firstOpenIndex,
           done |-> FALSE, value |-> Null]

\* The iteration of the for loop that LoopBody describes.
Iterate ==
    LET st == LoopBody(input, openToken, closeToken, excludeRanges, Locals)
    IN  /\ i' = st.i
        /\ depth' = st.depth
        /\ firstOpenIndex' = st.firstOpenIndex
        /\ pc' = IF st.done THEN "done" ELSE "loop"
        /\ result' = IF st.done THEN st.value ELSE result
        /\ UNCHANGED <<Arguments, search, calls, searchStartIndex, openToken,
                       closeToken, SplitLocals>>

\* An iteration at depth 0: the search for the first open token.
GetOpenCloseRangeOpen ==
    /\ op \in RangeOps /\ pc = "loop"
    /\ i < Len(input)
    /\ depth = 0
    /\ Iterate

\* An iteration at depth > 0: the next close or nested open token.
GetOpenCloseRangeNested ==
    /\ op \in RangeOps /\ pc = "loop"
    /\ i < Len(input)
    /\ depth > 0
    /\ Iterate

\* Mutation of GetOpenCloseRangeEnd: an unterminated open token gives the range
\* up to the end of the text.
GetOpenCloseRangeEndPartial ==
    /\ op \in RangeOps /\ pc = "loop"
    /\ ~(i < Len(input))
    /\ pc' = "done"
    /\ result' = IF depth > 0 THEN TextRange(firstOpenIndex, Len(input)) ELSE Null
    /\ UNCHANGED <<Arguments, search, calls, RangeLocals, SplitLocals>>

\* The loop condition i < length fails: return null.
GetOpenCloseRangeEnd ==
    /\ op \in RangeOps /\ pc = "loop"
    /\ ~(i < Len(input))
    /\ pc' = "done"
    /\ result' = Null
    /\ UNCHANGED <<Arguments, search, calls, RangeLocals, SplitLocals>>

\* The while loop of splitExcluding finds a separator.
SplitExcludingPart ==
    /\ op = "splitExcluding" /\ pc = "loop"
    /\ LET commaIndex == indexOfExcluding(input, separator, currIndex, excludeRanges)
       IN  /\ commaIndex >= 0
           /\ parts' = Append(parts, Trim(Substring(input, currIndex, commaIndex)))
           /\ currIndex' = commaIndex + 1
    /\ UNCHANGED <<Arguments, search, calls, RangeLocals, separator, pc, result>>

\* The while loop ends: the rest of the text is the last part.
SplitExcludingRest ==
    /\ op = "splitExcluding" /\ pc = "loop"
    /\ indexOfExcluding(input, separator, currIndex, excludeRanges) = -1
    /\ parts' = Append(parts, Trim(Substring(input, currIndex, Len(input))))
    /\ result' = parts'
    /\ pc' = "done"
    /\ UNCHANGED <<Arguments, search, calls, RangeLocals, separator, currIndex>>

Next ==
    \/ IndexOfExcludingRecurse
    \/ IndexOfExcludingReturn
    \/ IndexOfExcludingOverflow
    \/ GetOpenCloseRangeOpen
    \/ GetOpenCloseRangeNested
    \/ GetOpenCloseRangeEnd
    \/ SplitExcludingPart
    \/ SplitExcludingRest

Spec == Init /\ [][Next]_vars

--------------------------------------------------------------------------
\* What the claims speak of

Excluded(ranges, p) ==
    \E n \in 1..Len(ranges) : ranges[n].start <= p /\ p < ranges[n].end

AllWellFormed ==
    \A n \in 1..Len(excludeRanges) : WellFormed(excludeRanges[n], input)

Least(S) == CHOOSE p \in S : \A q \in S : p <= q

\* The offsets >= from at which tok occurs outside every range.
FreeOccurrences(text, tok, ranges, from) ==
    {p \in Max(from, 0)..Len(text) : OccursAt(text, tok, p) /\ ~Excluded(ranges, p)}

SingleCharacterTokens == Len(openToken) = 1 /\ Len(closeToken) = 1

\* Open tokens minus close tokens among the unexcluded characters of text[s..e].
Balance(text, open, close, ranges, s, e) ==
    Cardinality({p \in s..e : OccursAt(text, open, p) /\ ~Excluded(ranges, p)}) -
    Cardinality({p \in s..e : OccursAt(text, close, p) /\ ~Excluded(ranges, p)})

\* The balanced region of the first unexcluded open token at or after from.
BalancedRange(text, from, open, close, ranges) ==
    LET opens == FreeOccurrences(text, open, ranges, from)
    IN  IF opens = {} THEN Null
        ELSE LET s == Least(opens)
                 closes == {c \in s + 1..Len(text) - 1 :
                               Balance(text, open, close, ranges, s, c) = 0}
             IN  IF closes = {} THEN Null ELSE TextRange(s, Least(closes) + 1)

\* The k-th smallest member of S.
Nth(S, k) == CHOOSE p \in S : Cardinality({q \in S : q < p}) = k - 1

\* text[a..b] (1-based) from its first to its last character that is not
\* whitespace.
Trimmed(text, a, b) ==
    LET solid == {k \in a..b : text[k] \notin Whitespace}
    IN  IF solid = {} THEN <<>>
        ELSE SubSeq(text, Least(solid), CHOOSE k \in solid : \A m \in solid : m <= k)

\* The trimmed pieces of text between the unexcluded occurrences of sep.
ExpectedParts(text, sep, ranges) ==
    LET P == FreeOccurrences(text, sep, ranges, 0)
        k == Cardinality(P)
    IN  [j \in 1..k + 1 |->
            Trimmed(text,
                    IF j = 1 THEN 1 ELSE Nth(P, j - 1) + 2,
                    IF j = k + 1 THEN Len(text) ELSE Nth(P, j))]

\* parts.join(sep)
RECURSIVE Join(_, _)
Join(list, sep) ==
    IF list = <<>> THEN <<>>
    ELSE IF Len(list) = 1 THEN list[1]
    ELSE list[1] \o sep \o Join(Tail(list), sep)

\* s with its whitespace removed.
RECURSIVE StripWhitespace(_)
StripWhitespace(s) ==
    IF s = <<>> THEN <<>>
    ELSE IF Head(s) \in Whitespace THEN StripWhitespace(Tail(s))
    ELSE <<Head(s)>> \o StripWhitespace(Tail(s))

NoWhitespace(s) == \A k \in 1..Len(s) : s[k] \notin Whitespace

\* text with every excluded occurrence of the two tokens replaced by "a".
Masked(text, open, close, ranges) ==
    [k \in 1..Len(text) |->
        IF Excluded(ranges, k - 1) /\ (<<text[k]>> = open \/ <<text[k]>> = close)
        THEN "a" ELSE text[k]]

--------------------------------------------------------------------------
\* Claims

\* C1: with well-formed exclusion ranges and 0 <= position <= length,
\* indexOfExcluding returns the smallest offset >= position at which the token
\* occurs outside every range [start, end), and -1 when there is none; so an
\* occurrence at the end of a skipped range is found.
C1_FirstUnexcludedOccurrence ==
    (op = "indexOfExcluding" /\ AllWellFormed) =>
        /\ pc # "thrown"
        /\ pc = "done" =>
              LET free == FreeOccurrences(input, search, excludeRanges, calls[1])
              IN  IF free = {} THEN result = -1 ELSE result = Least(free)

\* Two overlapping ranges are skipped one after the other and the occurrence at
\* the end of the second one is returned.
C1_Witness ==
    /\ op = "indexOfExcluding" /\ pc = "done" /\ AllWellFormed
    /\ Len(calls) = 3
    /\ Len(excludeRanges) = 2
    /\ excludeRanges[1].end > excludeRanges[2].start
    /\ excludeRanges[2].end > excludeRanges[1].end
    /\ result = excludeRanges[2].end

\* C2: without exclusions and with two distinct one-character tokens,
\* getOpenCloseRange and getParenthesesRange return the balanced region of the
\* first open token at or after searchStartIndex (nested pairs skipped), and null
\* exactly when there is no open token or no balancing close token.
C2_BalancedRegion ==
    (op \in RangeOps /\ pc = "done" /\ excludeRanges = <<>>
        /\ SingleCharacterTokens /\ openToken # closeToken) =>
        result = BalancedRange(input, searchStartIndex, openToken, closeToken, <<>>)

\* getParenthesesRange on a(()) returns the outer pair, as on a(b(c)d)e.
C2_Witness ==
    /\ op = "getParenthesesRange" /\ pc = "done"
    /\ input = <<"a", "(", "(", ")", ")">>
    /\ searchStartIndex = 0
    /\ result = TextRange(1, 5)

\* C3: with a one-character separator and well-formed exclusion ranges,
\* splitExcluding returns, in text order, the trimmed pieces of the text between
\* the separator occurrences that lie outside every range (k occurrences give
\* k + 1 elements; the empty text gives one empty element).
C3_SplitsAtUnexcludedSeparators ==
    (op = "splitExcluding" /\ pc = "done" /\ Len(separator) = 1 /\ AllWellFormed) =>
        result = ExpectedParts(input, separator, excludeRanges)

\* ",,," with the middle comma excluded gives "", "," and "".
C3_Witness ==
    /\ op = "splitExcluding" /\ pc = "done"
    /\ excludeRanges # <<>>
    /\ Excluded(excludeRanges, 1) /\ ~Excluded(excludeRanges, 0) /\ ~Excluded(excludeRanges, 2)
    /\ input = <<",", ",", ",">>
    /\ result = << <<>>, <<",">>, <<>> >>

\* C4: in getOpenCloseRange at depth > 0, when the next open token and the next
\* close token are found at the same offset, the occurrence is a close: depth is
\* decremented.
C4_TieIsClose ==
    [][(/\ op \in RangeOps /\ pc = "loop" /\ i < Len(input) /\ depth > 0
        /\ indexOf(input, excludeRanges, closeToken, i) >= 0
        /\ indexOf(input, excludeRanges, closeToken, i) =
               indexOf(input, excludeRanges, openToken, i))
       => depth' = depth - 1]_vars

\* C5: a range that getOpenCloseRange returns lies in the text, begins with the
\* open token and ends with the whole close token, whatever the tokens' lengths.
C5_RangeEndsAfterCloseToken ==
    (op \in RangeOps /\ pc = "done" /\ result # Null) =>
        /\ 0 <= result.start /\ result.start < result.end /\ result.end <= Len(input)
        /\ OccursAt(input, openToken, result.start)
        /\ OccursAt(input, closeToken, result.end - Len(closeToken))

\* C6: getOpenCloseRange returns null or a whole range: null when no unexcluded
\* open token occurs at or after searchStartIndex, and null when the first such
\* open token is never balanced, with no retry from a later open token (a range
\* returned starts at the first one).
C6_NullWhenNoMatch ==
    (op \in RangeOps /\ pc = "done") =>
        LET opens == FreeOccurrences(input, openToken, excludeRanges, searchStartIndex)
        IN  /\ result = Null \/
                  (/\ DOMAIN result = {"start", "end"}
                   /\ 0 <= result.start /\ result.start < result.end
                   /\ result.end <= Len(input))
            /\ opens = {} => result = Null
            /\ result # Null => result.start = Least(opens)
            /\ (/\ SingleCharacterTokens /\ openToken # closeToken
                /\ BalancedRange(input, searchStartIndex, openToken, closeToken,
                                 excludeRanges) = Null)
                  => result = Null

\* In "((a)" the first open token is unterminated and the call returns null,
\* although the open token after it has a balanced region.
C6_Witness ==
    /\ op = "getOpenCloseRange" /\ pc = "done"
    /\ input = <<"(", "(", "a", ")">>
    /\ openToken = <<"(">> /\ closeToken = <<")">>
    /\ searchStartIndex = 0
    /\ result = Null
    /\ firstOpenIndex = 0
    /\ getOpenCloseRange(input, firstOpenIndex + 1, openToken, closeToken,
                         excludeRanges) # Null

\* C7 as stated: for every non-empty separator and no exclusions, joining the
\* elements with the separator gives the text with every element trimmed, and the
\* text itself when it holds no whitespace.
C7_RoundTripAnySeparator ==
    (op = "splitExcluding" /\ pc = "done" /\ excludeRanges = <<>>) =>
        /\ StripWhitespace(Join(result, separator)) = StripWhitespace(input)
        /\ NoWhitespace(input) => Join(result, separator) = input

\* C7, amended: the round trip holds for every one-character separator.
C7_RoundTripOneCharacterSeparator ==
    (op = "splitExcluding" /\ pc = "done" /\ excludeRanges = <<>>
        /\ Len(separator) = 1) =>
        /\ StripWhitespace(Join(result, separator)) = StripWhitespace(input)
        /\ Len(Join(result, separator)) <= Len(input)
        /\ \A j \in 1..Len(result) :
              result[j] = <<>> \/
                  (Head(result[j]) \notin Whitespace
                       /\ result[j][Len(result[j])] \notin Whitespace)
        /\ NoWhitespace(input) => Join(result, separator) = input

\* "a,a,a" splits in three and joins back.
C7_Witness ==
    /\ op = "splitExcluding" /\ pc = "done" /\ excludeRanges = <<>>
    /\ separator = <<",">>
    /\ input = <<"a", ",", "a", ",", "a">>
    /\ Len(result) = 3
    /\ Join(result, separator) = input

\* A step that does not end the call moves the cursor forward: the position of
\* the new frame of indexOfExcluding is past the offset just found, i and
\* currIndex are greater after the iteration.
CursorAdvances ==
    /\ (op = "indexOfExcluding" /\ AllWellFormed /\ pc' = "call") =>
           calls'[Len(calls')] > IndexOf(input, search, position)
    /\ (op \in RangeOps /\ pc' = "loop") => i' > i
    /\ (op = "splitExcluding" /\ pc' = "loop") => currIndex' > currIndex

\* The cursor of a running call is at most one step past the text (or where
\* searchStartIndex put it), and the recursion is no deeper than the text is long.
CursorInText ==
    /\ op = "indexOfExcluding" =>
           position <= Len(input) /\ Len(calls) <= Len(input) + 1
    /\ op \in RangeOps => i <= Max(searchStartIndex, Len(input))
    /\ op = "splitExcluding" =>
           /\ currIndex <= Len(input)
           /\ indexOfExcluding(input, separator, currIndex, excludeRanges) # RangeError

\* C8: with well-formed exclusion ranges every call terminates, because each
\* step that does not end it moves the cursor forward: a recursive call of
\* indexOfExcluding gets a position greater than the offset just found, an
\* iteration of getOpenCloseRange leaves i greater, an iteration of
\* splitExcluding leaves currIndex greater.  The cursor never passes the end of
\* the text by more than a step and a call that has not returned never throws, so
\* every call returns after finitely many steps.
C8_CursorAdvancesAndTerminates ==
    /\ [][CursorAdvances]_vars
    /\ [](AllWellFormed => (pc = "done" \/ (pc # "thrown" /\ CursorInText)))

\* A call has taken at least two steps that moved its cursor and has returned.
C8_Witness ==
    /\ pc = "done" /\ AllWellFormed
    /\ \/ op = "indexOfExcluding" /\ Len(calls) >= 2
       \/ op \in RangeOps /\ depth >= 2
       \/ op = "splitExcluding" /\ Len(parts) >= 3

\* C9: whatever the exclusion ranges, malformed ones included, indexOfExcluding
\* terminates with an offset or -1, and a range with end <= start excludes
\* nothing.
C9_MalformedRangesFailSoft ==
    op = "indexOfExcluding" =>
        /\ pc # "thrown"
        /\ pc = "done" =>
              /\ result \in -1..Len(input)
              /\ \A n \in 1..Len(excludeRanges) :
                    excludeRanges[n].end <= excludeRanges[n].start =>
                        result = indexOfExcluding(input, search, calls[1],
                                     SubSeq(excludeRanges, 1, n - 1) \o
                                     SubSeq(excludeRanges, n + 1, Len(excludeRanges)))

\* C10: given a non-empty list of well-formed exclusion ranges and one-character
\* tokens, getOpenCloseRange ignores the excluded occurrences of both tokens: its
\* result is that of the scan without exclusions of the text in which they are
\* replaced by another character, and a range returned starts at the first
\* unexcluded open token and ends after an unexcluded close token.
C10_ExcludedTokensIgnored ==
    (op = "getOpenCloseRange" /\ pc = "done" /\ excludeRanges # <<>>
        /\ AllWellFormed /\ SingleCharacterTokens) =>
        /\ result = getOpenCloseRange(
                        Masked(input, openToken, closeToken, excludeRanges),
                        searchStartIndex, openToken, closeToken, <<>>)
        /\ result # Null =>
              /\ result.start = Least(FreeOccurrences(input, openToken, excludeRanges,
                                                      searchStartIndex))
              /\ OccursAt(input, closeToken, result.end - 1)
              /\ ~Excluded(excludeRanges, result.end - 1)

\* A range is returned across an excluded close token.
C10_Witness ==
    /\ op = "getOpenCloseRange" /\ pc = "done" /\ excludeRanges # <<>>
    /\ openToken # closeToken
    /\ result # Null
    /\ \E p \in result.start + 1..result.end - 2 :
           OccursAt(input, closeToken, p) /\ Excluded(excludeRanges, p)

====
